---------------------------- MODULE Spec2Model ----------------------------
(***************************************************************************)
(* RecruitDesk: the App shell with its landing animation, the Dashboard    *)
(* component (job description, upload list, analysis request, simulated    *)
(* progress, filtered and sorted results) and the ranking engine behind    *)
(* POST /rank-resumes.                                                     *)
(*                                                                         *)
(* App, LandingAnimation and Dashboard are translated from                 *)
(* frontend/src/App.jsx and frontend/src/components.  The engine           *)
(* (backend/main.py) is not among the source files; its scoring, its       *)
(* model-load-once gate and its readiness flag are modelled from the       *)
(* design document, sections 4.3 to 4.7 and 5 to 7.                        *)
(*                                                                         *)
(* Numbers.  Scores are kept in hundredths of a percent (0 .. 10000), the  *)
(* precision of round(x, 2).  A cosine similarity is kept in units of      *)
(* 1/100000, a lexical overlap in thousandths.                             *)
(*                                                                         *)
(* Text.  A text is a sequence of lexemes: a lexeme is a word or one       *)
(* whitespace character.                                                   *)
(***************************************************************************)
EXTENDS Integers, Sequences, FiniteSets, TLC

VARIABLES
    \* Dashboard.jsx
    jobDescription,   \* useState('')  : the textarea's text
    resumes,          \* useState([])  : the upload list (File objects)
    results,          \* useState([])  : ranked_resumes of the last response
    loading,          \* useState(false)
    error,            \* useState('')
    dragActive,       \* useState(false)
    percentProgress,  \* useState(0)
    filterMinScore,   \* useState(0)
    filterSkill,      \* useState('')
    sortBy,           \* useState('match')
    requests,         \* POST /rank-resumes requests on their way to the server
    responses,        \* settled requests whose continuation has not yet run
    intervals,        \* number of active setInterval progress timers
    resetTimers,      \* number of pending setTimeout(..., 500) late resets
    \* App.jsx and LandingAnimation
    showDashboard,    \* App: useState(false)
    startTransition,  \* LandingAnimation: useState(false)
    transitionTimer,  \* the setTimeout(..., 2500) of the effect is pending
    completeTimer,    \* the setTimeout(..., 3200) of the effect is pending
    clock,            \* milliseconds since LandingAnimation was mounted
    completions,      \* number of calls of onComplete
    \* The engine process
    modelGate,        \* the load-once gate: "unloaded", "loading" or "loaded"
    loadsStarted,     \* number of model loads started in this process
    embedder,         \* the embedding model instance (0: none)
    nlpPipeline,      \* the NLP pipeline instance (0: none)
    ready,            \* the readiness flag of the health interface
    worker,           \* what each request handler (0: process start) is doing
    served,           \* the model instances every inference has run on
    arrivals,         \* number of batch requests that have arrived
    rejected          \* number of batch requests rejected for unreadiness

viewVars   == <<filterMinScore, filterSkill, sortBy>>
timerVars  == <<intervals, resetTimers>>
netVars    == <<requests, responses>>
dashVars   == <<jobDescription, resumes, results, loading, error, dragActive,
                percentProgress, filterMinScore, filterSkill, sortBy,
                requests, responses, intervals, resetTimers>>
appVars    == <<showDashboard, startTransition, transitionTimer, completeTimer,
                clock, completions>>
engineVars == <<modelGate, loadsStarted, embedder, nlpPipeline, ready, worker,
                served, arrivals, rejected>>
vars == <<dashVars, appVars, engineVars>>

---------------------------------------------------------------------------
(* Bounds of the model. *)

\* Longest FileList handed to handleFileSelect in one event.
MaxBatch == 2
\* Longest job description typed before any analysis, in lexemes.
MaxJobLen == 2
\* Longest upload list in the specifications that follow an analysis.
MaxUpload == 2
\* Longest job text handed to the engine on its own, in words.
MaxJobWords == 3
\* Longest batch ranked by the engine on its own.
MaxRankBatch == 3
\* Most progress intervals alive at once (an analysis starts only below it).
MaxIntervals == 2
\* Request handlers of the engine process that can run at the same time.
MaxWorkers == 2
\* Batch requests that arrive at the engine process.
MaxArrivals == 3
\* Longest upload list where every analysis is followed to its end.
MaxLiveUpload == 1
\* The step of the clock of the landing animation, in milliseconds.
TickMs == 100
\* The clock stops here.
MaxClock == 4000

---------------------------------------------------------------------------
(* Program constants. *)

\* Dashboard.jsx:34  resumes.length + pdfFiles.length > 10
MaxResumes == 10
\* Dashboard.jsx:84  setPercentProgress(10)
ProgressStart == 10
\* Dashboard.jsx:96  prev < 90 ? prev + 5 : prev
ProgressCap == 90
ProgressStep == 5
\* Dashboard.jsx:106 setPercentProgress(100)
ProgressDone == 100
\* LandingAnimation: setTimeout(() => setStartTransition(true), 2500)
TransitionDelay == 2500
\* LandingAnimation: setTimeout(() => onComplete(), 3200)
CompleteDelay == 3200

PdfType == "application/pdf"

ErrNone       == ""
ErrPdfOnly    == "Please select PDF files only"
ErrMaxResumes == "Maximum 10 resumes allowed"
ErrNoJob      == "Please enter a job description"
ErrNoResume   == "Please upload at least one resume"
ErrBackend    == "Failed to analyze resumes. Please ensure the backend is running."

---------------------------------------------------------------------------
(* Sequence helpers (Array.prototype.filter, spread, indices from 0). *)

\* the filter with the index counted from 1
RemoveAtOneBased(s, index) ==
    LET keep == {p \in 1..Len(s) : p # index}
        pos(k) == CHOOSE p \in keep : Cardinality({q \in keep : q < p}) = k - 1
    IN  [k \in 1..Cardinality(keep) |-> s[pos(k)]]

\* prev.filter((_, i) => i !== index), index counted from 0
RemoveAt(s, index) ==
    LET keep == {p \in 1..Len(s) : p - 1 # index}
        pos(k) == CHOOSE p \in keep : Cardinality({q \in keep : q < p}) = k - 1
    IN  [k \in 1..Cardinality(keep) |-> s[pos(k)]]

SeqsUpTo(S, n) == UNION {[1..k -> S] : k \in 0..n}

---------------------------------------------------------------------------
(* Documents and files. *)

SkillLexicon == {"python", "aws", "docker"}
SectionKeys  == {"skills", "experience", "education"}

\* What the engine's collaborators deliver for one section of a resume:
\* its cosine similarity to the job text, the skills found in it and its
\* lexical overlap with the job text.
SectionEmpty  == [cosine |-> 0,       skills |-> {},           lexical |-> 0]
SectionStrong == [cosine |-> 100000,  skills |-> SkillLexicon, lexical |-> 1000]
SectionWeak   == [cosine |-> -50000,  skills |-> {"python"},   lexical |-> 500]

\* A resume document as the engine sees it after PDF extraction.
MkDoc(ok, cos, sk, lex, yoe, secs) ==
    [extractable |-> ok, cosine |-> cos, skills |-> sk, lexical |-> lex,
     years |-> yoe, sections |-> secs]

AllSections(p) == [k \in SectionKeys |-> p]

DocGood    == MkDoc(TRUE, 80000, {"python", "aws"}, 500, 5,
                    [AllSections(SectionStrong) EXCEPT !["education"] = SectionEmpty])
DocCorrupt == MkDoc(FALSE, 0, {}, 0, 0, AllSections(SectionEmpty))
DocPlain   == MkDoc(TRUE, 30000, {}, 0, 0, AllSections(SectionEmpty))

\* File objects the user can pick or drop in the dashboard.
FileA   == [name |-> "a.pdf",     type |-> PdfType,      doc |-> DocGood]
FileB   == [name |-> "b.pdf",     type |-> PdfType,      doc |-> DocCorrupt]
FileTxt == [name |-> "notes.txt", type |-> "text/plain", doc |-> DocPlain]

UploadFiles == {FileA, FileB, FileTxt}
\* The FileLists of one change or drop event.
FileLists   == SeqsUpTo(UploadFiles, MaxBatch)
\* The same with one PDF file and one other file to choose from.
PlainFileLists == SeqsUpTo({FileA, FileTxt}, MaxBatch)

---------------------------------------------------------------------------
(* Text: sequences of lexemes. *)

Whitespace == {" "}

RECURSIVE TrimStart(_)
\* String.prototype.trimStart
TrimStart(text) ==
    IF text # <<>> /\ Head(text) \in Whitespace THEN TrimStart(Tail(text)) ELSE text

RECURSIVE TrimEnd(_)
\* String.prototype.trimEnd
TrimEnd(text) ==
    IF text # <<>> /\ text[Len(text)] \in Whitespace
    THEN TrimEnd(SubSeq(text, 1, Len(text) - 1))
    ELSE text

\* String.prototype.trim
Trim(text) == TrimEnd(TrimStart(text))

\* What a user types into the textarea of the dashboard.
TypedTexts == SeqsUpTo({" ", "Python"}, MaxJobLen)

---------------------------------------------------------------------------
(* The ranking engine behind POST /rank-resumes (design sections 4.3-4.7). *)

\* round(a / b, 0) for b > 0, ties to the even neighbour as Python's round
RoundDiv(a, b) ==
    LET q == a \div b
        r == a % b
    IN  IF 2 * r < b THEN q
        ELSE IF 2 * r > b THEN q + 1
        ELSE IF q % 2 = 0 THEN q ELSE q + 1

\* case normalisation of one word
Lower(w) == IF w = "Python" THEN "python" ELSE w

\* required-skill set of a job text: case-normalised, deduplicated
RequiredSkills(text) ==
    {Lower(text[i]) : i \in 1..Len(text)} \cap SkillLexicon

\* semantic score without the clamp of negative similarity
SemanticScoreNoClamp(cosine) == RoundDiv(cosine, 10)

\* 4.3: semantic_score = round(max(0, cosine) * 100, 2), in hundredths
SemanticScore(cosine) == RoundDiv(IF cosine > 0 THEN cosine ELSE 0, 10)

\* 3: matched_skills = job skills /\ resume skills
MatchedSkills(job, skills) == job \cap skills

\* missing skills taken from the whole lexicon instead of the job's skills
MissingSkillsOfLexicon(job, skills) == SkillLexicon \ skills

\* 3: missing_skills = job skills - resume skills
MissingSkills(job, skills) == job \ skills

\* 4.4: keyword_score = round(100 * (0.7 * skill_overlap + 0.3 * lexical_overlap), 2)
\* with skill_overlap = |matched| / |job skills|, 1.0 when the job names no skill
KeywordScore(job, skills, lexical) ==
    LET n == IF job = {} THEN 1 ELSE Cardinality(job)
        m == IF job = {} THEN 1 ELSE Cardinality(MatchedSkills(job, skills))
    IN  RoundDiv(7000 * m + 3 * lexical * n, n)

\* the blend with the two weights exchanged
CombineSwapped(semantic, keyword) == RoundDiv(4 * semantic + 6 * keyword, 10)

\* 4.5: final = round(0.6 * semantic_score + 0.4 * keyword_score, 2)
Combine(semantic, keyword) == RoundDiv(6 * semantic + 4 * keyword, 10)

\* 4.4: the same blend restricted to one section's text
SectionScore(job, section) ==
    Combine(SemanticScore(section.cosine),
            KeywordScore(job, section.skills, section.lexical))

ReasonSemantic == "High semantic similarity to job description"
ReasonSkills   == "Matched key skills: "
ReasonTerms    == "Strong overlap in terminology and domain language"
ReasonCaution  == "Caution: most required skills are missing"

\* One match reason: its text and, for the skills reason, the skills joined to it.
Reason(text, skills) == [text |-> text, skills |-> skills]

\* the reasons with the first applicable rule only
MatchReasonsFirstOnly(semantic, keyword, job, matched, missing) ==
    IF semantic >= 8000 THEN <<Reason(ReasonSemantic, {})>>
    ELSE IF matched # {} THEN <<Reason(ReasonSkills, matched)>>
    ELSE IF keyword >= 7000 THEN <<Reason(ReasonTerms, {})>>
    ELSE IF missing # {} /\ 2 * Cardinality(matched) < Cardinality(job)
         THEN <<Reason(ReasonCaution, {})>>
         ELSE <<>>

\* 4.6: the rules applied in priority order, every applicable one emitting
MatchReasons(semantic, keyword, job, matched, missing) ==
    LET r1 == IF semantic >= 8000 THEN <<Reason(ReasonSemantic, {})>> ELSE <<>>
        r2 == IF matched # {} THEN <<Reason(ReasonSkills, matched)>> ELSE <<>>
        r3 == IF keyword >= 7000 THEN <<Reason(ReasonTerms, {})>> ELSE <<>>
        r4 == IF missing # {} /\ 2 * Cardinality(matched) < Cardinality(job)
              THEN <<Reason(ReasonCaution, {})>> ELSE <<>>
    IN  r1 \o r2 \o r3 \o r4

\* 4.2-4.6: the MatchResult of the document uploaded at position index
ScoreDocument(job, file, index) ==
    LET doc      == file.doc
        semantic == SemanticScore(doc.cosine)
        keyword  == KeywordScore(job, doc.skills, doc.lexical)
        matched  == MatchedSkills(job, doc.skills)
        missing  == MissingSkills(job, doc.skills)
    IN  [filename            |-> file.name,
         upload_index        |-> index,
         match_percentage    |-> Combine(semantic, keyword),
         years_of_experience |-> doc.years,
         match_details       |->
            [semantic_score    |-> semantic,
             keyword_score     |-> keyword,
             section_breakdown |->
                 [k \in SectionKeys |-> SectionScore(job, doc.sections[k])],
             matched_skills    |-> matched,
             missing_skills    |-> missing,
             match_reasons     |->
                 MatchReasons(semantic, keyword, job, matched, missing)]]

RECURSIVE ScoreAllFrom(_, _, _)
\* the scoring loop ending at the first document whose extraction fails
ScoreAllFrom(job, files, index) ==
    IF index > Len(files) THEN <<>>
    ELSE IF files[index].doc.extractable
         THEN <<ScoreDocument(job, files[index], index)>>
                  \o ScoreAllFrom(job, files, index + 1)
         ELSE <<>>

RECURSIVE ScoreExtractableFrom(_, _, _)
\* 4.7, 7: one MatchResult per document whose text could be extracted, in
\* upload order; a document whose extraction fails is dropped
ScoreExtractableFrom(job, files, index) ==
    IF index > Len(files) THEN <<>>
    ELSE IF files[index].doc.extractable
         THEN <<ScoreDocument(job, files[index], index)>>
                  \o ScoreExtractableFrom(job, files, index + 1)
         ELSE ScoreExtractableFrom(job, files, index + 1)

\* the sort key without the upload index
RanksBeforeByScoreOnly(r, e) == r.match_percentage > e.match_percentage

\* r comes before the element e under the key (-match_percentage, upload_index)
RanksBefore(r, e) ==
    \/ r.match_percentage > e.match_percentage
    \/ /\ r.match_percentage = e.match_percentage
       /\ r.upload_index < e.upload_index

RECURSIVE InsertRanked(_, _)
\* one step of the sort: r is put behind every element that ranks before it
InsertRanked(sorted, r) ==
    IF sorted = <<>> THEN <<r>>
    ELSE IF RanksBefore(Head(sorted), r)
         THEN <<Head(sorted)>> \o InsertRanked(Tail(sorted), r)
         ELSE <<r>> \o sorted

RECURSIVE SortRanked(_)
\* 4.7: sort by (-match_percentage, original_upload_index)
SortRanked(scored) ==
    IF scored = <<>> THEN <<>>
    ELSE InsertRanked(SortRanked(SubSeq(scored, 1, Len(scored) - 1)),
                      scored[Len(scored)])

\* 4.7: the RankedList of a batch
RankedList(job, files) == SortRanked(ScoreExtractableFrom(job, files, 1))

\* 6: the response body of a processed batch
ResponseData(job_description, files) ==
    [success        |-> TRUE,
     total_resumes  |-> Len(files),
     ranked_resumes |-> RankedList(RequiredSkills(job_description), files)]

---------------------------------------------------------------------------
(* Dashboard: file selection, drag and drop, removal. *)

RECURSIVE PdfFilesOf(_)
\* Array.from(files).filter(file => file.type === 'application/pdf')
PdfFilesOf(files) ==
    IF files = <<>> THEN <<>>
    ELSE IF Head(files).type = PdfType
         THEN <<Head(files)>> \o PdfFilesOf(Tail(files))
         ELSE PdfFilesOf(Tail(files))

\* <textarea onChange={(e) => setJobDescription(e.target.value)}>
SetJobDescription(text) ==
    /\ jobDescription' = text
    /\ UNCHANGED <<resumes, results, loading, error, dragActive, percentProgress,
                   viewVars, netVars, timerVars>>
    /\ UNCHANGED <<appVars, engineVars>>

\* handleFileSelect with the limit tested against the batch alone
HandleFileSelectNoCount(files) ==
    LET pdfFiles == PdfFilesOf(files) IN
    IF Len(pdfFiles) = 0
    THEN error' = ErrPdfOnly /\ UNCHANGED resumes
    ELSE IF Len(pdfFiles) > MaxResumes
         THEN error' = ErrMaxResumes /\ UNCHANGED resumes
         ELSE resumes' = resumes \o pdfFiles /\ error' = ErrNone

\* handleFileSelect without the PDF filter
HandleFileSelectNoFilter(files) ==
    IF Len(files) = 0
    THEN error' = ErrPdfOnly /\ UNCHANGED resumes
    ELSE IF Len(resumes) + Len(files) > MaxResumes
         THEN error' = ErrMaxResumes /\ UNCHANGED resumes
         ELSE resumes' = resumes \o files /\ error' = ErrNone

\* handleFileSelect(files): what it does to resumes and error
HandleFileSelect(files) ==
    LET pdfFiles == PdfFilesOf(files) IN
    IF Len(pdfFiles) = 0
    THEN error' = ErrPdfOnly /\ UNCHANGED resumes
    ELSE IF Len(resumes) + Len(pdfFiles) > MaxResumes
         THEN error' = ErrMaxResumes /\ UNCHANGED resumes
         ELSE resumes' = resumes \o pdfFiles /\ error' = ErrNone

\* <input type="file" onChange={(e) => handleFileSelect(e.target.files)}>
OnFileInputChange(files) ==
    /\ HandleFileSelect(files)
    /\ UNCHANGED <<jobDescription, results, loading, dragActive, percentProgress,
                   viewVars, netVars, timerVars>>
    /\ UNCHANGED <<appVars, engineVars>>

\* handleDrag: dragenter and dragover set dragActive, dragleave clears it
HandleDrag(type) ==
    /\ dragActive' = IF type \in {"dragenter", "dragover"} THEN TRUE
                     ELSE IF type = "dragleave" THEN FALSE
                     ELSE dragActive
    /\ UNCHANGED <<jobDescription, resumes, results, loading, error,
                   percentProgress, viewVars, netVars, timerVars>>
    /\ UNCHANGED <<appVars, engineVars>>

\* handleDrop: clears dragActive, then handleFileSelect unless nothing was dropped
HandleDrop(files) ==
    /\ dragActive' = FALSE
    /\ IF Len(files) > 0 THEN HandleFileSelect(files)
       ELSE UNCHANGED <<resumes, error>>
    /\ UNCHANGED <<jobDescription, results, loading, percentProgress,
                   viewVars, netVars, timerVars>>
    /\ UNCHANGED <<appVars, engineVars>>

\* removeFile(index): setResumes(prev => prev.filter((_, i) => i !== index))
RemoveFile(index) ==
    /\ resumes' = RemoveAt(resumes, index)
    /\ UNCHANGED <<jobDescription, results, loading, error, dragActive,
                   percentProgress, viewVars, netVars, timerVars>>
    /\ UNCHANGED <<appVars, engineVars>>

---------------------------------------------------------------------------
(* Dashboard: handleAnalyze, its progress interval and its late reset. *)

\* The FormData of one POST /rank-resumes.
FormData(job_description, files) ==
    [job_description |-> job_description, resumes |-> files]

\* the start of an analysis without setError('') and setResults([])
StartAnalysisKeepsOutcome ==
    /\ intervals < MaxIntervals
    /\ loading' = TRUE
    /\ percentProgress' = ProgressStart
    /\ requests' = Append(requests, FormData(jobDescription, resumes))
    /\ intervals' = intervals + 1
    /\ UNCHANGED <<jobDescription, resumes, results, error, dragActive, viewVars,
                   responses, resetTimers>>
    /\ UNCHANGED <<appVars, engineVars>>

\* The request is built and sent, the progress interval started.
StartAnalysis ==
    /\ intervals < MaxIntervals
    /\ loading' = TRUE
    /\ error' = ErrNone
    /\ results' = <<>>
    /\ percentProgress' = ProgressStart
    /\ requests' = Append(requests, FormData(jobDescription, resumes))
    /\ intervals' = intervals + 1
    /\ UNCHANGED <<jobDescription, resumes, dragActive, viewVars, responses,
                   resetTimers>>
    /\ UNCHANGED <<appVars, engineVars>>

\* Only the error message changes.
RejectAnalysis(message) ==
    /\ error' = message
    /\ UNCHANGED <<jobDescription, resumes, results, loading, dragActive,
                   percentProgress, viewVars, netVars, timerVars>>
    /\ UNCHANGED <<appVars, engineVars>>

\* handleAnalyze without the test of the job description
HandleAnalyzeNoJobCheck ==
    /\ ~loading
    /\ IF Len(resumes) = 0 THEN RejectAnalysis(ErrNoResume)
       ELSE StartAnalysis

\* handleAnalyze clearing the old results before it validates
HandleAnalyzeClearsFirst ==
    /\ ~loading
    /\ IF Trim(jobDescription) = <<>>
       THEN /\ error' = ErrNoJob
            /\ results' = <<>>
            /\ UNCHANGED <<jobDescription, resumes, loading, dragActive,
                           percentProgress, viewVars, netVars, timerVars>>
       ELSE IF Len(resumes) = 0
       THEN /\ error' = ErrNoResume
            /\ results' = <<>>
            /\ UNCHANGED <<jobDescription, resumes, loading, dragActive,
                           percentProgress, viewVars, netVars, timerVars>>
       ELSE StartAnalysis
    /\ UNCHANGED <<appVars, engineVars>>

\* handleAnalyze behind a button that is not disabled while loading
HandleAnalyzeWhileLoading ==
    IF Trim(jobDescription) = <<>> THEN RejectAnalysis(ErrNoJob)
    ELSE IF Len(resumes) = 0 THEN RejectAnalysis(ErrNoResume)
    ELSE StartAnalysis

\* handleAnalyze up to its await; the button is disabled while loading
HandleAnalyze ==
    /\ ~loading
    /\ IF Trim(jobDescription) = <<>> THEN RejectAnalysis(ErrNoJob)
       ELSE IF Len(resumes) = 0 THEN RejectAnalysis(ErrNoResume)
       ELSE StartAnalysis

\* the setInterval callback without its cap: setPercentProgress(prev => prev + 5)
ProgressTickUncapped ==
    /\ intervals > 0
    /\ percentProgress' = percentProgress + ProgressStep
    /\ UNCHANGED <<jobDescription, resumes, results, loading, error, dragActive,
                   viewVars, netVars, timerVars>>
    /\ UNCHANGED <<appVars, engineVars>>

\* setInterval callback: setPercentProgress(prev => (prev < 90 ? prev + 5 : prev))
ProgressTick ==
    /\ intervals > 0
    /\ percentProgress' = IF percentProgress < ProgressCap
                          THEN percentProgress + ProgressStep
                          ELSE percentProgress
    /\ UNCHANGED <<jobDescription, resumes, results, loading, error, dragActive,
                   viewVars, netVars, timerVars>>
    /\ UNCHANGED <<appVars, engineVars>>

\* A settled request: fulfilled with data, or rejected with the detail of the
\* error response ("" when there is none).
Fulfilled(data) == [ok |-> TRUE, detail |-> "", data |-> data]
Rejected(detail) ==
    [ok |-> FALSE, detail |-> detail,
     data |-> [success |-> FALSE, total_resumes |-> 0, ranked_resumes |-> <<>>]]

DetailValidation == "Invalid request"
DetailInference  == "Model inference failed"

\* 6, 7: ValidationError
InvalidRequest(req) ==
    \/ Trim(req.job_description) = <<>>
    \/ Len(req.resumes) = 0
    \/ Len(req.resumes) > MaxResumes
    \/ \E i \in 1..Len(req.resumes) : req.resumes[i].type # PdfType

\* The engine answers the oldest request.
ServerRespond ==
    /\ requests # <<>>
    /\ LET req == Head(requests) IN
       responses' = Append(responses,
           IF InvalidRequest(req) THEN Rejected(DetailValidation)
           ELSE Fulfilled(ResponseData(req.job_description, req.resumes)))
    /\ requests' = Tail(requests)
    /\ UNCHANGED <<jobDescription, resumes, results, loading, error, dragActive,
                   percentProgress, viewVars, timerVars>>
    /\ UNCHANGED <<appVars, engineVars>>

\* 7: InferenceError fails the whole request.
ServerInferenceFails ==
    /\ requests # <<>>
    /\ ~InvalidRequest(Head(requests))
    /\ responses' = Append(responses, Rejected(DetailInference))
    /\ requests' = Tail(requests)
    /\ UNCHANGED <<jobDescription, resumes, results, loading, error, dragActive,
                   percentProgress, viewVars, timerVars>>
    /\ UNCHANGED <<appVars, engineVars>>

\* The request fails without a response (the backend is not running).
RequestFails ==
    /\ requests # <<>>
    /\ responses' = Append(responses, Rejected(""))
    /\ requests' = Tail(requests)
    /\ UNCHANGED <<jobDescription, resumes, results, loading, error, dragActive,
                   percentProgress, viewVars, timerVars>>
    /\ UNCHANGED <<appVars, engineVars>>

\* handleAnalyze after its await, with a catch block that sets no message
HandleResponseSilentCatch ==
    /\ responses # <<>>
    /\ LET r == Head(responses) IN
       IF r.ok
       THEN /\ intervals' = intervals - 1
            /\ percentProgress' = ProgressDone
            /\ results' = IF r.data.success THEN r.data.ranked_resumes ELSE results
            /\ UNCHANGED error
       ELSE UNCHANGED <<error, intervals, percentProgress, results>>
    /\ responses' = Tail(responses)
    /\ resetTimers' = resetTimers + 1
    /\ UNCHANGED <<jobDescription, resumes, loading, dragActive, viewVars, requests>>
    /\ UNCHANGED <<appVars, engineVars>>

\* handleAnalyze after its await, the late reset set at the end of the try
\* block instead of in a finally block
HandleResponseResetInTry ==
    /\ responses # <<>>
    /\ LET r == Head(responses) IN
       IF r.ok
       THEN /\ intervals' = intervals - 1
            /\ percentProgress' = ProgressDone
            /\ results' = IF r.data.success THEN r.data.ranked_resumes ELSE results
            /\ resetTimers' = resetTimers + 1
            /\ UNCHANGED error
       ELSE /\ error' = IF r.detail # "" THEN r.detail ELSE ErrBackend
            /\ UNCHANGED <<intervals, percentProgress, results, resetTimers>>
    /\ responses' = Tail(responses)
    /\ UNCHANGED <<jobDescription, resumes, loading, dragActive, viewVars, requests>>
    /\ UNCHANGED <<appVars, engineVars>>

\* handleAnalyze after its await, showing the first result of the response only
HandleResponseFirstResult ==
    /\ responses # <<>>
    /\ LET r == Head(responses) IN
       IF r.ok
       THEN /\ intervals' = intervals - 1
            /\ percentProgress' = ProgressDone
            /\ results' = IF r.data.success
                          THEN (IF Len(r.data.ranked_resumes) > 1
                                THEN <<r.data.ranked_resumes[1]>>
                                ELSE r.data.ranked_resumes)
                          ELSE results
            /\ UNCHANGED error
       ELSE /\ error' = IF r.detail # "" THEN r.detail ELSE ErrBackend
            /\ UNCHANGED <<intervals, percentProgress, results>>
    /\ responses' = Tail(responses)
    /\ resetTimers' = resetTimers + 1
    /\ UNCHANGED <<jobDescription, resumes, loading, dragActive, viewVars, requests>>
    /\ UNCHANGED <<appVars, engineVars>>

\* handleAnalyze after its await: try, catch and finally
HandleResponse ==
    /\ responses # <<>>
    /\ LET r == Head(responses) IN
       IF r.ok
       THEN /\ intervals' = intervals - 1
            /\ percentProgress' = ProgressDone
            /\ results' = IF r.data.success THEN r.data.ranked_resumes ELSE results
            /\ UNCHANGED error
       ELSE /\ error' = IF r.detail # "" THEN r.detail ELSE ErrBackend
            /\ UNCHANGED <<intervals, percentProgress, results>>
    /\ responses' = Tail(responses)
    /\ resetTimers' = resetTimers + 1
    /\ UNCHANGED <<jobDescription, resumes, loading, dragActive, viewVars, requests>>
    /\ UNCHANGED <<appVars, engineVars>>

\* setTimeout callback of the finally block
ResetTimeout ==
    /\ resetTimers > 0
    /\ loading' = FALSE
    /\ percentProgress' = 0
    /\ resetTimers' = resetTimers - 1
    /\ UNCHANGED <<jobDescription, resumes, results, error, dragActive,
                   viewVars, netVars, intervals>>
    /\ UNCHANGED <<appVars, engineVars>>

---------------------------------------------------------------------------
(* Dashboard: filteredResults and its controls. *)

\* The characters of the strings that appear as skills or as a skill filter.
Chars(str) ==
    CASE str = ""       -> <<>>
      [] str = "python" -> <<"p", "y", "t", "h", "o", "n">>
      [] str = "aws"    -> <<"a", "w", "s">>
      [] str = "docker" -> <<"d", "o", "c", "k", "e", "r">>
      [] str = "PY"     -> <<"P", "Y">>
      [] str = "go"     -> <<"g", "o">>

\* String.prototype.toLowerCase, on characters
ToLowerCase(chars) ==
    [i \in 1..Len(chars) |->
        CASE chars[i] = "P" -> "p"
          [] chars[i] = "Y" -> "y"
          [] OTHER -> chars[i]]

\* String.prototype.includes, on characters
Includes(chars, part) ==
    \E i \in 1..(Len(chars) + 1) :
        /\ i + Len(part) - 1 <= Len(chars)
        /\ SubSeq(chars, i, i + Len(part) - 1) = part

\* r.match_percentage >= filterMinScore
PassesMinScore(r) == r.match_percentage >= 100 * filterMinScore

\* the skill filter without the two toLowerCase calls
PassesSkillCaseSensitive(r) ==
    \/ filterSkill = ""
    \/ \E sk \in r.match_details.matched_skills :
          Includes(Chars(sk), Chars(filterSkill))

\* !filterSkill || matched_skills.some(s => s.toLowerCase().includes(filterSkill.toLowerCase()))
PassesSkill(r) ==
    \/ filterSkill = ""
    \/ \E sk \in r.match_details.matched_skills :
          Includes(ToLowerCase(Chars(sk)), ToLowerCase(Chars(filterSkill)))

\* the comparator with the operands of the subtraction exchanged
CompareResultsAscending(a, b) ==
    IF sortBy = "match" THEN a.match_percentage - b.match_percentage
    ELSE IF sortBy = "yoe" THEN a.years_of_experience - b.years_of_experience
    ELSE 0

\* the comparator handed to sort
CompareResults(a, b) ==
    IF sortBy = "match" THEN b.match_percentage - a.match_percentage
    ELSE IF sortBy = "yoe" THEN b.years_of_experience - a.years_of_experience
    ELSE 0

RECURSIVE InsertStable(_, _)
\* Array.prototype.sort is stable: p goes behind every position that does not
\* compare greater than it
InsertStable(sorted, p) ==
    IF sorted = <<>> THEN <<p>>
    ELSE IF CompareResults(results[Head(sorted)], results[p]) <= 0
         THEN <<Head(sorted)>> \o InsertStable(Tail(sorted), p)
         ELSE <<p>> \o sorted

RECURSIVE SortStable(_)
\* Array.prototype.sort, on positions of results
SortStable(positions) ==
    IF positions = <<>> THEN <<>>
    ELSE InsertStable(SortStable(SubSeq(positions, 1, Len(positions) - 1)),
                      positions[Len(positions)])

RECURSIVE FilterFrom(_)
\* the two filters, on positions of results from p on
FilterFrom(p) ==
    IF p > Len(results) THEN <<>>
    ELSE IF PassesMinScore(results[p]) /\ PassesSkill(results[p])
         THEN <<p>> \o FilterFrom(p + 1)
         ELSE FilterFrom(p + 1)

\* filteredResults as positions of results, in display order
FilteredPositions == SortStable(FilterFrom(1))

\* const filteredResults = results.filter(...).filter(...).sort(...)
FilteredResults == [i \in 1..Len(FilteredPositions) |-> results[FilteredPositions[i]]]

MinScores    == {0, 50, 100}
SkillFilters == {"", "PY", "aws", "go"}
SortKeys     == {"match", "yoe"}

\* The filtering controls are rendered while results.length > 0.
\* <input type="range" onChange={(e) => setFilterMinScore(parseInt(e.target.value))}>
SetFilterMinScore(score) ==
    /\ Len(results) > 0
    /\ filterMinScore' = score
    /\ UNCHANGED <<jobDescription, resumes, results, loading, error, dragActive,
                   percentProgress, filterSkill, sortBy, netVars, timerVars>>
    /\ UNCHANGED <<appVars, engineVars>>

\* <input type="text" onChange={(e) => setFilterSkill(e.target.value)}>
SetFilterSkill(text) ==
    /\ Len(results) > 0
    /\ filterSkill' = text
    /\ UNCHANGED <<jobDescription, resumes, results, loading, error, dragActive,
                   percentProgress, filterMinScore, sortBy, netVars, timerVars>>
    /\ UNCHANGED <<appVars, engineVars>>

\* <select onChange={(e) => setSortBy(e.target.value)}>
SetSortBy(key) ==
    /\ Len(results) > 0
    /\ sortBy' = key
    /\ UNCHANGED <<jobDescription, resumes, results, loading, error, dragActive,
                   percentProgress, filterMinScore, filterSkill, netVars, timerVars>>
    /\ UNCHANGED <<appVars, engineVars>>

\* Reset Filters, shown when no result passes the filters
ResetFilters ==
    /\ Len(results) > 0
    /\ Len(FilteredPositions) = 0
    /\ filterMinScore' = 0
    /\ filterSkill' = ""
    /\ UNCHANGED <<jobDescription, resumes, results, loading, error, dragActive,
                   percentProgress, sortBy, netVars, timerVars>>
    /\ UNCHANGED <<appVars, engineVars>>

---------------------------------------------------------------------------
(* The engine process: the model-load-once gate and the readiness flag     *)
(* (design sections 5 and 6).  Handler 0 is the start of the process, the  *)
(* others handle one batch request at a time.                              *)

Workers == 1..MaxWorkers
Loaders == 0..MaxWorkers

At(w, pc) == worker[w].pc = pc
Goto(w, pc, load) == worker' = [worker EXCEPT ![w] = [pc |-> pc, load |-> load]]

\* Where a handler goes once the gate is behind it.
AfterGate(w) == IF w = 0 THEN "done" ELSE "admit"

\* The process has just been created: nothing is loaded.
EngineCreated ==
    /\ modelGate = "unloaded"
    /\ loadsStarted = 0
    /\ embedder = 0
    /\ nlpPipeline = 0
    /\ ready = FALSE
    /\ worker = [w \in Loaders |-> [pc |-> IF w = 0 THEN "boot" ELSE "idle", load |-> 0]]
    /\ served = {}
    /\ arrivals = 0
    /\ rejected = 0

\* The process has loaded its models at its start and waits for requests.
EngineServing ==
    /\ modelGate = "loaded"
    /\ loadsStarted = 1
    /\ embedder = 1
    /\ nlpPipeline = 1
    /\ ready = TRUE
    /\ worker = [w \in Loaders |-> [pc |-> IF w = 0 THEN "done" ELSE "idle", load |-> 0]]
    /\ served = {}
    /\ arrivals = 0
    /\ rejected = 0

\* The start of the process reaches the gate.
ProcessStart ==
    /\ At(0, "boot")
    /\ Goto(0, "gate", 0)
    /\ UNCHANGED <<modelGate, loadsStarted, embedder, nlpPipeline, ready, served,
                   arrivals, rejected>>
    /\ UNCHANGED <<dashVars, appVars>>

\* A batch request arrives at an idle handler.
Arrive(w) ==
    /\ At(w, "idle")
    /\ arrivals < MaxArrivals
    /\ arrivals' = arrivals + 1
    /\ Goto(w, "gate", 0)
    /\ UNCHANGED <<modelGate, loadsStarted, embedder, nlpPipeline, ready, served,
                   rejected>>
    /\ UNCHANGED <<dashVars, appVars>>

\* the gate taken by every handler that finds the models not yet loaded
AcquireGateUnguarded(w) ==
    /\ At(w, "gate")
    /\ IF modelGate # "loaded"
       THEN /\ modelGate' = "loading"
            /\ loadsStarted' = loadsStarted + 1
            /\ Goto(w, "load_embedder", loadsStarted + 1)
       ELSE /\ Goto(w, AfterGate(w), 0)
            /\ UNCHANGED <<modelGate, loadsStarted>>
    /\ UNCHANGED <<embedder, nlpPipeline, ready, served, arrivals, rejected>>
    /\ UNCHANGED <<dashVars, appVars>>

\* 5: the load-once gate, tested and taken in one step; only the handler that
\* finds it untaken starts a load
AcquireGate(w) ==
    /\ At(w, "gate")
    /\ IF modelGate = "unloaded"
       THEN /\ modelGate' = "loading"
            /\ loadsStarted' = loadsStarted + 1
            /\ Goto(w, "load_embedder", loadsStarted + 1)
       ELSE /\ Goto(w, AfterGate(w), 0)
            /\ UNCHANGED <<modelGate, loadsStarted>>
    /\ UNCHANGED <<embedder, nlpPipeline, ready, served, arrivals, rejected>>
    /\ UNCHANGED <<dashVars, appVars>>

\* The embedding model of this load is put in place.
LoadEmbedder(w) ==
    /\ At(w, "load_embedder")
    /\ embedder' = worker[w].load
    /\ Goto(w, "load_nlp", worker[w].load)
    /\ UNCHANGED <<modelGate, loadsStarted, nlpPipeline, ready, served, arrivals,
                   rejected>>
    /\ UNCHANGED <<dashVars, appVars>>

\* The NLP pipeline of this load is put in place.
LoadNlp(w) ==
    /\ At(w, "load_nlp")
    /\ nlpPipeline' = worker[w].load
    /\ Goto(w, "publish", worker[w].load)
    /\ UNCHANGED <<modelGate, loadsStarted, embedder, ready, served, arrivals,
                   rejected>>
    /\ UNCHANGED <<dashVars, appVars>>

\* 6: both models are loaded; the readiness flag is raised.
Publish(w) ==
    /\ At(w, "publish")
    /\ modelGate' = "loaded"
    /\ ready' = TRUE
    /\ Goto(w, AfterGate(w), 0)
    /\ UNCHANGED <<loadsStarted, embedder, nlpPipeline, served, arrivals, rejected>>
    /\ UNCHANGED <<dashVars, appVars>>

\* the admission of a batch request without the test of the readiness flag
AdmitUnchecked(w) ==
    /\ At(w, "admit")
    /\ Goto(w, "infer", 0)
    /\ UNCHANGED rejected
    /\ UNCHANGED <<modelGate, loadsStarted, embedder, nlpPipeline, ready, served,
                   arrivals>>
    /\ UNCHANGED <<dashVars, appVars>>

\* 6: a batch request is rejected while the readiness flag is down
Admit(w) ==
    /\ At(w, "admit")
    /\ IF ready
       THEN Goto(w, "infer", 0) /\ UNCHANGED rejected
       ELSE Goto(w, "idle", 0) /\ rejected' = rejected + 1
    /\ UNCHANGED <<modelGate, loadsStarted, embedder, nlpPipeline, ready, served,
                   arrivals>>
    /\ UNCHANGED <<dashVars, appVars>>

\* The batch is scored on the shared model instances.
Infer(w) ==
    /\ At(w, "infer")
    /\ served' = served \cup {[embedder |-> embedder, nlp |-> nlpPipeline]}
    /\ Goto(w, "idle", 0)
    /\ UNCHANGED <<modelGate, loadsStarted, embedder, nlpPipeline, ready, arrivals,
                   rejected>>
    /\ UNCHANGED <<dashVars, appVars>>

---------------------------------------------------------------------------
(* App.jsx and LandingAnimation: the intro animation, its two timers and   *)
(* the switch to the dashboard.                                            *)

\* {!showDashboard && <LandingAnimation onComplete={handleAnimationComplete} />}
LandingShown == ~showDashboard
\* {showDashboard && <Dashboard />}
DashboardShown == showDashboard

\* the first render with an effect that sets the completion timer only
AppMountedNoTransitionTimer ==
    /\ showDashboard = FALSE
    /\ startTransition = FALSE
    /\ transitionTimer = FALSE
    /\ completeTimer = TRUE
    /\ clock = 0
    /\ completions = 0

\* The first render of App and the effect of LandingAnimation: both timers set.
AppMounted ==
    /\ showDashboard = FALSE
    /\ startTransition = FALSE
    /\ transitionTimer = TRUE
    /\ completeTimer = TRUE
    /\ clock = 0
    /\ completions = 0

\* The animation has completed and the dashboard has taken its place.
AppAtDashboard ==
    /\ showDashboard = TRUE
    /\ startTransition = TRUE
    /\ transitionTimer = FALSE
    /\ completeTimer = FALSE
    /\ clock = CompleteDelay
    /\ completions = 1

\* Time passes.
Tick ==
    /\ clock < MaxClock
    /\ clock' = clock + TickMs
    /\ UNCHANGED <<showDashboard, startTransition, transitionTimer, completeTimer,
                   completions>>
    /\ UNCHANGED <<dashVars, engineVars>>

\* setTimeout(() => { setStartTransition(true); }, 2500)
TransitionTimeout ==
    /\ transitionTimer
    /\ clock >= TransitionDelay
    /\ startTransition' = TRUE
    /\ transitionTimer' = FALSE
    /\ UNCHANGED <<showDashboard, completeTimer, clock, completions>>
    /\ UNCHANGED <<dashVars, engineVars>>

\* setTimeout(() => { onComplete(); }, 3200): handleAnimationComplete sets
\* showDashboard, App renders again, LandingAnimation is unmounted and the
\* cleanup of its effect clears both timers.  Timers set together run in the
\* order of their delays.
CompleteTimeout ==
    /\ completeTimer
    /\ clock >= CompleteDelay
    /\ ~(transitionTimer /\ TransitionDelay <= CompleteDelay)
    /\ completions' = completions + 1
    /\ showDashboard' = TRUE
    /\ transitionTimer' = FALSE
    /\ completeTimer' = FALSE
    /\ UNCHANGED <<startTransition, clock>>
    /\ UNCHANGED <<dashVars, engineVars>>

---------------------------------------------------------------------------
(* The dashboard right after it is mounted. *)

DashboardMounted ==
    /\ jobDescription = <<>>
    /\ resumes = <<>>
    /\ results = <<>>
    /\ loading = FALSE
    /\ error = ErrNone
    /\ dragActive = FALSE
    /\ percentProgress = 0
    /\ filterMinScore = 0
    /\ filterSkill = ""
    /\ sortBy = "match"
    /\ requests = <<>>
    /\ responses = <<>>
    /\ intervals = 0
    /\ resetTimers = 0

Init ==
    /\ DashboardMounted
    /\ AppAtDashboard
    /\ EngineServing

---------------------------------------------------------------------------
(* Spec: the dashboard through its analyses.  The user types one of a few  *)
(* texts and keeps the upload list short.                                  *)

\* An empty text, a blank one, a job text and the same with blanks around it.
AnalysisTexts == {<<>>, <<" ">>, <<"Python">>, <<" ", "Python", " ">>}

Next ==
    \/ \E text \in AnalysisTexts : SetJobDescription(text)
    \/ \E files \in FileLists :
          /\ Len(resumes) + Len(files) <= MaxUpload
          /\ OnFileInputChange(files)
    \/ \E index \in 0..Len(resumes) : RemoveFile(index)
    \/ HandleAnalyze
    \/ ProgressTick
    \/ ServerRespond
    \/ ServerInferenceFails
    \/ RequestFails
    \/ HandleResponse
    \/ ResetTimeout

Spec == Init /\ [][Next]_vars

\* handleAnalyze finds nothing to analyse.
InputRejected == Trim(jobDescription) = <<>> \/ Len(resumes) = 0

(* C3: a request to /rank-resumes is sent only when the job description is *)
(* non-empty after trimming and the upload list holds a file; otherwise    *)
(* handleAnalyze sets a validation error and sends nothing, and the job    *)
(* description is tested before the upload list.                           *)
C3_SendsOnlyValidInput ==
    /\ [](\A i \in 1..Len(requests) :
            /\ Trim(requests[i].job_description) # <<>>
            /\ Len(requests[i].resumes) >= 1)
    /\ [][requests' # requests /\ Len(requests') > Len(requests)
            => /\ ~InputRejected
               /\ requests' = Append(requests, FormData(jobDescription, resumes))]_vars
    /\ [][(HandleAnalyze /\ InputRejected)
            => /\ requests' = requests
               /\ error' = IF Trim(jobDescription) = <<>> THEN ErrNoJob
                           ELSE ErrNoResume]_vars

\* A blank job description was refused, with files waiting in the list.
C3_Witness ==
    /\ error = ErrNoJob
    /\ jobDescription # <<>> /\ Trim(jobDescription) = <<>>
    /\ Len(resumes) > 0
    /\ requests = <<>> /\ responses = <<>>

(* C4: when handleAnalyze rejects its input, loading stays false and       *)
(* percentProgress, the upload list, the shown results, the timers and the *)
(* requests are unchanged: only the error message changes.                 *)
C4_RejectionChangesOnlyError ==
    [][(HandleAnalyze /\ InputRejected)
         => /\ loading = FALSE /\ loading' = FALSE
            /\ error' \in {ErrNoJob, ErrNoResume}
            /\ UNCHANGED <<jobDescription, resumes, results, percentProgress,
                           dragActive, viewVars, netVars, timerVars>>]_vars

\* Results of an earlier analysis are still shown after a rejected one.
C4_Witness ==
    /\ error \in {ErrNoJob, ErrNoResume}
    /\ results # <<>>
    /\ ~loading

---------------------------------------------------------------------------
(* The dashboard right after handleAnalyze has sent a request. *)

InitAnalysing(text, files) ==
    /\ jobDescription = text
    /\ resumes = files
    /\ results = <<>>
    /\ loading = TRUE
    /\ error = ErrNone
    /\ dragActive = FALSE
    /\ percentProgress = ProgressStart
    /\ filterMinScore = 0
    /\ filterSkill = ""
    /\ sortBy = "match"
    /\ requests = <<FormData(text, files)>>
    /\ responses = <<>>
    /\ intervals = 1
    /\ resetTimers = 0
    /\ AppAtDashboard
    /\ EngineServing

\* Job texts of up to MaxJobWords words, none of them blank.
JobWords == {"Python", "aws", "docker", "the"}
JobTexts == SeqsUpTo(JobWords, MaxJobWords) \ {<<>>}

---------------------------------------------------------------------------
(* SpecScore: one request with one resume, over a range of documents.      *)

CosineValues  == {-100000, -50000, 0, 79994, 79996, 100000}
LexicalValues == {0, 500, 1000}
\* The documents: an unreadable one, and every combination of the values.
ScoreDocs ==
    {DocCorrupt} \cup
    {MkDoc(TRUE, cos, sk, lex, 0, AllSections(sec)) :
        cos \in CosineValues, sk \in SUBSET SkillLexicon, lex \in LexicalValues,
        sec \in {SectionEmpty, SectionStrong, SectionWeak}}

InitScore ==
    \E text \in JobTexts, doc \in ScoreDocs :
        InitAnalysing(text, <<[name |-> "a.pdf", type |-> PdfType, doc |-> doc]>>)

NextScore ==
    \/ ServerRespond
    \/ HandleResponse
    \/ ResetTimeout

SpecScore == InitScore /\ [][NextScore]_vars

---------------------------------------------------------------------------
(* SpecRank: one request with a batch of resumes, and the filtering and    *)
(* sorting of its results.                                                 *)

DocGoodSenior == [DocGood EXCEPT !.years = 9]

FileC == [name |-> "c.pdf", type |-> PdfType, doc |-> DocGoodSenior]
FileD == [name |-> "d.pdf", type |-> PdfType, doc |-> DocPlain]

RankFiles == {FileA, FileB, FileC, FileD}
RankTexts == {<<"Python">>, <<"the">>}

InitRank ==
    \E text \in RankTexts, files \in SeqsUpTo(RankFiles, MaxRankBatch) \ {<<>>} :
        InitAnalysing(text, files)

NextRank ==
    \/ ServerRespond
    \/ HandleResponse
    \/ ResetTimeout
    \/ \E score \in MinScores : SetFilterMinScore(score)
    \/ \E text \in SkillFilters : SetFilterSkill(text)
    \/ \E key \in SortKeys : SetSortBy(key)
    \/ ResetFilters

SpecRank == InitRank /\ [][NextRank]_vars

\* The ranked lists in the system: of the responses on their way, and shown.
RankedLists ==
    {responses[i].data.ranked_resumes : i \in {j \in 1..Len(responses) : responses[j].ok}}
        \cup {results}

\* Every MatchResult in the system.
MatchResults == UNION {{l[i] : i \in 1..Len(l)} : l \in RankedLists}

\* l is in descending order of match_percentage, equal scores in upload order.
RankedDescending(l) ==
    \A i, j \in 1..Len(l) :
        i < j => \/ l[i].match_percentage > l[j].match_percentage
                 \/ /\ l[i].match_percentage = l[j].match_percentage
                    /\ l[i].upload_index < l[j].upload_index

(* C5: every ranked list is in descending order of match_percentage with   *)
(* equal scores in upload order; and with sortBy = 'match' the displayed   *)
(* list is in non-increasing order of match_percentage, equal scores in    *)
(* the order of the response.                                              *)
C5_RankedByMatchStable ==
    /\ \A l \in RankedLists : RankedDescending(l)
    /\ sortBy = "match" =>
          \A i, j \in 1..Len(FilteredPositions) :
              i < j =>
                 LET p == FilteredPositions[i]
                     q == FilteredPositions[j]
                 IN  \/ results[p].match_percentage > results[q].match_percentage
                     \/ /\ results[p].match_percentage = results[q].match_percentage
                        /\ p < q

\* Three results are displayed by match: two with equal scores, one with a
\* lower score that was uploaded first.
C5_Witness ==
    /\ sortBy = "match"
    /\ Len(results) = 3 /\ Len(FilteredPositions) = 3
    /\ results[1].match_percentage = results[2].match_percentage
    /\ results[2].match_percentage > results[3].match_percentage
    /\ results[3].upload_index = 1

C7_ScoresInRange ==
    \A r \in MatchResults :
        /\ r.match_percentage \in 0..10000
        /\ r.match_details.semantic_score \in 0..10000
        /\ r.match_details.keyword_score \in 0..10000
        /\ DOMAIN r.match_details.section_breakdown = SectionKeys
        /\ \A k \in SectionKeys : r.match_details.section_breakdown[k] \in 0..10000

\* A shown result of a resume whose similarity to the job text is negative,
\* overall and in every section.
C7_Witness ==
    /\ Len(results) = 1
    /\ resumes[1].doc.cosine < 0
    /\ resumes[1].doc.sections["skills"].cosine < 0
    /\ results[1].match_details.semantic_score = 0

(* C8: for every result, matched_skills and missing_skills are disjoint,   *)
(* missing_skills is the job's required skills minus the resume's skills,  *)
(* and when the job requires a skill their union is the required-skill set *)
C8_SkillsPartitionJob ==
    \A r \in MatchResults :
        LET job     == RequiredSkills(jobDescription)
            skills  == resumes[r.upload_index].doc.skills
            matched == r.match_details.matched_skills
            missing == r.match_details.missing_skills
        IN  /\ matched \cap missing = {}
            /\ matched \subseteq job /\ matched \subseteq skills
            /\ missing = {sk \in job : sk \notin skills}
            /\ job # {} => matched \cup missing = job

\* A shown result with a matched and a missing skill, of a resume that also
\* has a skill the job does not ask for.
C8_Witness ==
    \E i \in 1..Len(results) :
        /\ results[i].match_details.matched_skills # {}
        /\ results[i].match_details.missing_skills # {}
        /\ ~(resumes[1].doc.skills \subseteq RequiredSkills(jobDescription))

\* The priority of a reason, by its text.
ReasonPriority(text) ==
    CASE text = ReasonSemantic -> 1
      [] text = ReasonSkills   -> 2
      [] text = ReasonTerms    -> 3
      [] text = ReasonCaution  -> 4
      [] OTHER -> 0

Extractable(files) == {i \in 1..Len(files) : files[i].doc.extractable}

\* l holds one result for each extractable file of the upload list, no other.
OneResultPerExtractable(l) ==
    /\ Len(l) = Cardinality(Extractable(resumes))
    /\ \A p \in Extractable(resumes) :
          \E i \in 1..Len(l) :
              /\ l[i].upload_index = p
              /\ l[i].filename = resumes[p].name
              /\ \A j \in 1..Len(l) : l[j].upload_index = p => j = i

(* C10: a document whose text extraction fails is dropped without failing  *)
(* the batch: the response is a success, total_resumes is the number of    *)
(* uploaded files and ranked_resumes holds exactly one result for every    *)
(* other document.                                                         *)
C10_FailedExtractionDropsOneDocument ==
    /\ \A i \in 1..Len(responses) :
          /\ responses[i].ok
          /\ responses[i].data.success
          /\ responses[i].data.total_resumes = Len(resumes)
          /\ OneResultPerExtractable(responses[i].data.ranked_resumes)
    /\ (requests = <<>> /\ responses = <<>>) => OneResultPerExtractable(results)

\* The response to a batch of three files, the second of them unreadable.
C10_Witness ==
    /\ Len(resumes) = 3
    /\ Extractable(resumes) = {1, 3}
    /\ Len(responses) = 1
    /\ responses[1].data.total_resumes = 3
    /\ Len(responses[1].data.ranked_resumes) = 2

---------------------------------------------------------------------------
(* SpecUpload: the dashboard before any analysis; the upload list grows   *)
(* up to the limit of the code.                                            *)

DragEvents == {"dragenter", "dragover", "dragleave"}

NextUpload ==
    \/ \E text \in TypedTexts : SetJobDescription(text)
    \/ \E files \in PlainFileLists : OnFileInputChange(files)
    \/ \E files \in PlainFileLists : HandleDrop(files)
    \/ \E type \in DragEvents : HandleDrag(type)
    \/ \E index \in 0..Len(resumes) : RemoveFile(index)

SpecUpload == Init /\ [][NextUpload]_vars

\* A file selection or a drop that hands files to handleFileSelect.
Selects(files) == OnFileInputChange(files) \/ (Len(files) > 0 /\ HandleDrop(files))

HasNonPdf(files) == \E i \in 1..Len(files) : files[i].type # PdfType

(* C1: the upload list never holds more than 10 files, and a selection     *)
(* whose PDF files would bring it above 10 leaves the list unchanged and   *)
(* sets the error 'Maximum 10 resumes allowed'.                            *)
C1_AtMostTenResumes ==
    /\ [](Len(resumes) <= MaxResumes)
    /\ [][\A files \in FileLists :
            (Selects(files) /\ Len(resumes) + Len(PdfFilesOf(files)) > MaxResumes)
                => (resumes' = resumes /\ error' = ErrMaxResumes)]_vars

\* A full list on which a further selection has just been refused.
C1_Witness == Len(resumes) = MaxResumes /\ error = ErrMaxResumes

(* C2 as stated: a batch holding at least one non-PDF file is rejected:    *)
(* an error is set and no file of the batch is added.                      *)
C2_MixedBatchRejected ==
    [][\A files \in FileLists :
         (Selects(files) /\ HasNonPdf(files))
             => (resumes' = resumes /\ error' # ErrNone)]_vars

(* C2 amended: a batch without any PDF file is rejected with 'Please       *)
(* select PDF files only' and adds nothing; of any other batch the non-PDF *)
(* files are dropped and exactly the PDF files are added, in order, with   *)
(* the error cleared, unless they would bring the list above 10; so the    *)
(* upload list never holds a file that is not a PDF.                       *)
C2_OnlyPdfFilesAdded ==
    /\ [](\A i \in 1..Len(resumes) : resumes[i].type = PdfType)
    /\ [][\A files \in FileLists : Selects(files) =>
            LET pdfFiles == PdfFilesOf(files) IN
            /\ pdfFiles = <<>>
                  => (resumes' = resumes /\ error' = ErrPdfOnly)
            /\ (pdfFiles # <<>> /\ Len(resumes) + Len(pdfFiles) <= MaxResumes)
                  => (resumes' = resumes \o pdfFiles /\ error' = ErrNone)
            /\ resumes' \in {resumes, resumes \o pdfFiles}]_vars

\* A batch without PDF files was refused while the list held files.
C2_Witness == error = ErrPdfOnly /\ Len(resumes) > 0

---------------------------------------------------------------------------
(* Failed requests. *)

\* The continuation of handleAnalyze runs for a request that was rejected.
HandlesFailure == responses # <<>> /\ ~Head(responses).ok /\ HandleResponse

(* C11: an inference failure fails the whole request: its response carries *)
(* a detail and no result for any document, and when handleAnalyze handles *)
(* a failed request the results list is empty and stays empty and the      *)
(* error message becomes non-empty.                                        *)
C11_InferenceFailureFailsRequest ==
    /\ [](\A i \in 1..Len(responses) :
            ~responses[i].ok => responses[i].data.ranked_resumes = <<>>)
    /\ [][ServerInferenceFails
            => LET r == responses'[Len(responses')] IN
               /\ Len(responses') = Len(responses) + 1
               /\ ~r.ok /\ r.detail # "" /\ r.data.ranked_resumes = <<>>]_vars
    /\ [][HandlesFailure
            => /\ results = <<>> /\ results' = <<>>
               /\ error' # ErrNone
               /\ error' = IF Head(responses).detail # ""
                           THEN Head(responses).detail ELSE ErrBackend]_vars

\* The analysis of a failed inference is over: no result, the detail shown.
C11_Witness ==
    /\ error = DetailInference
    /\ results = <<>>
    /\ ~loading /\ resetTimers = 0
    /\ requests = <<>> /\ responses = <<>>

---------------------------------------------------------------------------
(* SpecEngine: the engine process from its creation, with request handlers *)
(* that run concurrently with its start.                                   *)

InitEngine ==
    /\ DashboardMounted
    /\ AppAtDashboard
    /\ EngineCreated

NextEngine ==
    \/ ProcessStart
    \/ \E w \in Workers : Arrive(w)
    \/ \E w \in Loaders : AcquireGate(w)
    \/ \E w \in Loaders : LoadEmbedder(w)
    \/ \E w \in Loaders : LoadNlp(w)
    \/ \E w \in Loaders : Publish(w)
    \/ \E w \in Workers : Admit(w)
    \/ \E w \in Workers : Infer(w)

SpecEngine == InitEngine /\ [][NextEngine]_vars

\* The handlers that are loading the models.
Loading == {w \in Loaders : worker[w].pc \in {"load_embedder", "load_nlp", "publish"}}

(* C12: the embedding model and the NLP pipeline are loaded once per       *)
(* process: however the start of the process and the first requests        *)
(* interleave, at most one load is started and at most one handler is      *)
(* loading, a model put in place is never replaced, and every inference    *)
(* runs on the instances of that one load.                                 *)
C12_ModelsLoadedOnce ==
    /\ [](loadsStarted <= 1)
    /\ [](Cardinality(Loading) <= 1)
    /\ [](\A s \in served : s.embedder = 1 /\ s.nlp = 1)
    /\ [][/\ embedder # 0 => embedder' = embedder
          /\ nlpPipeline # 0 => nlpPipeline' = nlpPipeline]_vars

\* One handler is loading the models while another one, which reached the
\* gate during the load, has passed it without loading.
C12_Witness ==
    \E w \in Loaders, v \in Workers :
        /\ w # v
        /\ At(w, "load_nlp")
        /\ At(v, "admit")
        /\ loadsStarted = 1

(* C13: no inference runs before the models are loaded: the readiness flag *)
(* goes up only once, when the embedding model and the NLP pipeline are    *)
(* both in place; a batch request admitted while it is down is rejected    *)
(* and runs no inference; every inference runs with the flag up, on loaded *)
(* models.                                                                 *)
C13_NoInferenceBeforeReady ==
    /\ [](ready => (embedder # 0 /\ nlpPipeline # 0))
    /\ [](\A w \in Workers : At(w, "infer") => ready)
    /\ [](\A s \in served : s.embedder # 0 /\ s.nlp # 0)
    /\ [][ready' # ready => (~ready /\ embedder # 0 /\ nlpPipeline # 0)]_vars
    /\ [][\A w \in Workers :
            (Admit(w) /\ ~ready)
                => /\ rejected' = rejected + 1
                   /\ worker'[w].pc = "idle"
                   /\ served' = served]_vars

\* A request was rejected during the load, and a later one has been served.
C13_Witness ==
    /\ rejected > 0
    /\ ready
    /\ served # {}

---------------------------------------------------------------------------
(* SpecRerun: the same batch analysed again and again by an engine whose   *)
(* worker pool completes the documents of a batch in any order.            *)

RECURSIVE ScoreInOrder(_, _, _)
\* 5: one MatchResult per extractable document, in the order in which the
\* worker pool completes the documents
ScoreInOrder(job, files, order) ==
    IF order = <<>> THEN <<>>
    ELSE (IF files[Head(order)].doc.extractable
          THEN <<ScoreDocument(job, files[Head(order)], Head(order))>>
          ELSE <<>>)
         \o ScoreInOrder(job, files, Tail(order))

\* 4.7: the fold over the results of the batch, once all are available
ResponseDataInOrder(job_description, files, order) ==
    [success        |-> TRUE,
     total_resumes  |-> Len(files),
     ranked_resumes |->
        SortRanked(ScoreInOrder(RequiredSkills(job_description), files, order))]

\* The orders in which n documents can complete.
CompletionOrders(n) == {[i \in 1..n |-> f[i]] : f \in Permutations(1..n)}

\* The engine answers the oldest request; its documents complete in any order.
ServerRespondPooled ==
    /\ requests # <<>>
    /\ ready
    /\ arrivals < MaxArrivals
    /\ arrivals' = arrivals + 1
    /\ LET req == Head(requests) IN
       \E order \in CompletionOrders(Len(req.resumes)) :
          responses' = Append(responses,
              IF InvalidRequest(req) THEN Rejected(DetailValidation)
              ELSE Fulfilled(ResponseDataInOrder(req.job_description, req.resumes, order)))
    /\ requests' = Tail(requests)
    /\ UNCHANGED <<jobDescription, resumes, results, loading, error, dragActive,
                   percentProgress, viewVars, timerVars>>
    /\ UNCHANGED <<modelGate, loadsStarted, embedder, nlpPipeline, ready, worker,
                   served, rejected>>
    /\ UNCHANGED appVars

NextRerun ==
    \/ HandleAnalyze
    \/ ServerRespondPooled
    \/ HandleResponse
    \/ ResetTimeout

SpecRerun == InitRank /\ [][NextRerun]_vars

---------------------------------------------------------------------------
(* Filenames of a batch. *)

\* No two files of the list have the same name.
UniqueNames(files) ==
    \A i, j \in 1..Len(files) : files[i].name = files[j].name => i = j

(* C15 as stated: the upload list, and so the batch of every request to    *)
(* /rank-resumes, never holds two files with the same name.                *)
C15_FilenamesUnique ==
    /\ UniqueNames(resumes)
    /\ \A i \in 1..Len(requests) : UniqueNames(requests[i].resumes)

---------------------------------------------------------------------------
(* SpecLive: the dashboard through its analyses, where every request       *)
(* settles and every pending continuation and timeout runs.                *)

LiveTexts == {<<"Python">>}
LiveFileLists == SeqsUpTo({FileA}, 1)

\* What the user can do in the dashboard.
UserActs ==
    \/ \E text \in AnalysisTexts : SetJobDescription(text)
    \/ \E files \in FileLists : OnFileInputChange(files)
    \/ \E files \in FileLists : HandleDrop(files)
    \/ \E type \in DragEvents : HandleDrag(type)
    \/ \E index \in 0..Len(resumes) : RemoveFile(index)
    \/ HandleAnalyze

\* The request settles: the engine answers it, or it fails.
Settle == ServerRespond \/ ServerInferenceFails \/ RequestFails

NextLive ==
    \/ \E text \in LiveTexts : SetJobDescription(text)
    \/ \E files \in LiveFileLists :
          /\ Len(resumes) + Len(files) <= MaxLiveUpload
          /\ OnFileInputChange(files)
    \/ \E index \in 0..Len(resumes) : RemoveFile(index)
    \/ HandleAnalyze
    \/ ProgressTick
    \/ ServerRespond
    \/ ServerInferenceFails
    \/ RequestFails
    \/ HandleResponse
    \/ ResetTimeout

SpecLive ==
    /\ Init
    /\ [][NextLive]_vars
    /\ WF_vars(Settle \/ HandleResponse \/ ResetTimeout)

(* C16: once handleAnalyze has set loading, loading returns to false and   *)
(* percentProgress to 0, whether the request succeeds or fails, provided   *)
(* the request settles and the pending continuation and timeout run; and   *)
(* while loading nothing the user does changes loading, the requests in    *)
(* flight, the settled responses or the timers.                            *)
C16_AnalysisRunsToCompletion ==
    /\ [](loading => <>(~loading /\ percentProgress = 0))
    /\ [][(loading /\ UserActs)
            => UNCHANGED <<loading, requests, responses, intervals, resetTimers>>]_vars
    /\ [][(loading /\ ~loading') => (ResetTimeout /\ requests = <<>> /\ responses = <<>>)]_vars

\* A failed analysis and a later successful one have both come to their end.
C16_Witness ==
    /\ ~loading
    /\ percentProgress = 0
    /\ results # <<>>
    /\ intervals > 0

---------------------------------------------------------------------------
(* The results list through an analysis. *)

\* The continuation of handleAnalyze runs for a fulfilled request.
HandlesSuccess == responses # <<>> /\ Head(responses).ok /\ HandleResponse

(* C17: while a request is on its way or its response waits to be handled  *)
(* the results list is empty; it changes only when an analysis starts, to  *)
(* the empty list, and when a fulfilled request is handled, in one step to *)
(* the whole ranked_resumes list of the response; handling a failed        *)
(* request leaves it as it is.                                             *)
C17_ResultsDeliveredWhole ==
    /\ []((requests # <<>> \/ responses # <<>>) => results = <<>>)
    /\ [][results' # results
            => \/ HandleAnalyze /\ results' = <<>>
               \/ /\ HandlesSuccess
                  /\ results = <<>>
                  /\ results' = Head(responses).data.ranked_resumes]_vars
    /\ [][HandlesFailure => results' = results]_vars

\* A response with two results has just been handled: both are shown.
C17_Witness ==
    /\ loading
    /\ resetTimers = 1
    /\ Len(results) = 2
    /\ Len(resumes) = 2

---------------------------------------------------------------------------
(* From one analysis to the next. *)

\* handleAnalyze accepts its input and sends a request.
StartsAnalysis == HandleAnalyze /\ ~InputRejected

(* C18: when a new analysis starts, the results and the error message of   *)
(* the previous one are discarded in the step that sends the request, and  *)
(* no request or response of an earlier analysis is left in the system; so *)
(* a response that is handled is the one of the analysis started last, and *)
(* the results shown are empty or its ranked list.                         *)
C18_NothingSurvivesAnalysis ==
    /\ [][StartsAnalysis
            => /\ results' = <<>>
               /\ error' = ErrNone
               /\ requests = <<>> /\ responses = <<>>
               /\ requests' = <<FormData(jobDescription, resumes)>>]_vars
    /\ [](Len(requests) + Len(responses) <= 1)
    /\ [][(results' # results /\ results' # <<>>)
            => /\ responses = <<Head(responses)>>
               /\ requests = <<>>
               /\ results' = Head(responses).data.ranked_resumes]_vars

\* A second analysis has started after a failed one: the message of the
\* first is gone.
C18_Witness ==
    /\ loading
    /\ intervals = 2
    /\ Len(requests) = 1
    /\ error = ErrNone
    /\ results = <<>>

---------------------------------------------------------------------------
(* The simulated progress. *)

\* The response of the analysis is awaited: its request is on its way, or
\* has settled without its continuation having run.
Awaiting == requests # <<>> \/ responses # <<>>

(* C19: the progress of an analysis starts at 10; while the response is    *)
(* awaited it changes only by +5 and stays between 10 and 90; it becomes   *)
(* 100 only in the step that handles a fulfilled request.                  *)
C19_ProgressSimulation ==
    /\ [][StartsAnalysis => percentProgress' = ProgressStart]_vars
    /\ [](Awaiting => /\ percentProgress >= ProgressStart
                      /\ percentProgress <= ProgressCap
                      /\ percentProgress % ProgressStep = 0)
    /\ [][(Awaiting /\ Awaiting' /\ percentProgress' # percentProgress)
            => /\ ProgressTick
               /\ percentProgress' = percentProgress + ProgressStep]_vars
    /\ [][(percentProgress' = ProgressDone /\ percentProgress # ProgressDone)
            => HandlesSuccess]_vars
    /\ [](percentProgress = ProgressDone => ~Awaiting /\ loading)

\* The progress has reached its cap while the response is awaited, with the
\* interval of an earlier, failed analysis still running beside the new one.
C19_Witness ==
    /\ Awaiting
    /\ percentProgress = ProgressCap
    /\ intervals = 2

---------------------------------------------------------------------------
(* SpecApp: the app from its first render: the landing animation, then the *)
(* dashboard.                                                              *)

InitApp ==
    /\ DashboardMounted
    /\ AppMounted
    /\ EngineServing

NextApp ==
    \/ Tick
    \/ TransitionTimeout
    \/ CompleteTimeout
    \/ DashboardShown /\ \E text \in TypedTexts : SetJobDescription(text)
    \/ DashboardShown /\ \E type \in DragEvents : HandleDrag(type)

SpecApp == InitApp /\ [][NextApp]_vars

(* C20: exactly one of the landing animation and the dashboard is shown;   *)
(* showDashboard changes only from false to true, in the step in which the *)
(* completion timer calls onComplete, which happens once, not before       *)
(* 3.2 s, and only after the transition timer has set startTransition, not *)
(* before 2.5 s; once the dashboard is shown it stays, and no timer of the *)
(* animation is pending.                                                   *)
C20_LandingThenDashboard ==
    /\ [](LandingShown # DashboardShown)
    /\ [][showDashboard' # showDashboard
            => /\ ~showDashboard /\ showDashboard'
               /\ CompleteTimeout
               /\ completions' = completions + 1
               /\ startTransition
               /\ clock >= CompleteDelay]_vars
    /\ [][completions' # completions => CompleteTimeout]_vars
    /\ [](completions <= 1)
    /\ [](showDashboard <=> completions = 1)
    /\ [][startTransition' # startTransition
            => (TransitionTimeout /\ clock >= TransitionDelay)]_vars
    /\ [](showDashboard => (~transitionTimer /\ ~completeTimer))
    /\ [][showDashboard
            => UNCHANGED <<showDashboard, startTransition, transitionTimer,
                           completeTimer, completions>>]_vars

\* The dashboard is shown and in use, after an animation whose timers ran late.
C20_Witness ==
    /\ showDashboard
    /\ completions = 1
    /\ clock > CompleteDelay
    /\ jobDescription # <<>>

---------------------------------------------------------------------------
(* The progress interval after the analysis. *)

(* C21 as stated: whenever loading is false, percentProgress is 0 and no   *)
(* progress interval is active; the interval of an analysis is stopped     *)
(* when its request ends, fulfilled or not, so that no two intervals are   *)
(* ever active.                                                            *)
C21_NoIntervalWhenIdle ==
    /\ ~loading => (percentProgress = 0 /\ intervals = 0)
    /\ intervals <= 1

---------------------------------------------------------------------------
(* The outcome of an analysis. *)

(* C22 as stated: when loading returns to false after a request was sent,  *)
(* the results list is non-empty or the error message is non-empty.        *)
C22_FinishedAnalysisShowsOutcome ==
    [][(loading /\ ~loading') => (results' # <<>> \/ error' # ErrNone)]_vars

---------------------------------------------------------------------------
(* One analysis at a time. *)

(* C23: at most one request to /rank-resumes is in flight: from the start  *)
(* of an analysis until its late reset has run, loading is true and        *)
(* handleAnalyze cannot run, so an analysis starts only when no request,   *)
(* no response and no late reset of an earlier one is pending, and a late  *)
(* reset runs only when nothing else of an analysis is pending.            *)
C23_OneRequestInFlight ==
    /\ [](Len(requests) + Len(responses) + resetTimers <= 1)
    /\ []((requests # <<>> \/ responses # <<>> \/ resetTimers > 0) => loading)
    /\ [][HandleAnalyze => ~loading]_vars
    /\ [][StartsAnalysis
            => (requests = <<>> /\ responses = <<>> /\ resetTimers = 0)]_vars
    /\ [][ResetTimeout
            => (requests = <<>> /\ responses = <<>> /\ resetTimers' = 0)]_vars

\* The request of an analysis has failed and its late reset is pending:
\* the button is still disabled.
C23_Witness ==
    /\ loading
    /\ resetTimers = 1
    /\ requests = <<>> /\ responses = <<>>
    /\ error = ErrBackend

---------------------------------------------------------------------------
(* Filtering and sorting are a view of the stored results. *)

(* C24: the displayed list holds exactly the stored results whose          *)
(* match_percentage is at least filterMinScore and, when filterSkill is    *)
(* not empty, one of whose matched skills contains filterSkill without     *)
(* regard to case, each once; a change of filterMinScore, filterSkill or   *)
(* sortBy leaves the stored results and their order as they are; and with  *)
(* filterMinScore 0 and filterSkill empty every stored result is shown.    *)
C24_FiltersLeaveResults ==
    /\ [](\A i \in 1..Len(FilteredPositions) :
             FilteredPositions[i] \in 1..Len(results))
    /\ [](\A p \in 1..Len(results) :
             LET shown  == {i \in 1..Len(FilteredPositions) : FilteredPositions[i] = p}
                 skills == results[p].match_details.matched_skills
                 wanted == ToLowerCase(Chars(filterSkill))
                 passes ==
                    /\ results[p].match_percentage >= 100 * filterMinScore
                    /\ filterSkill # "" =>
                          \E sk \in skills : Includes(ToLowerCase(Chars(sk)), wanted)
             IN  Cardinality(shown) = IF passes THEN 1 ELSE 0)
    /\ []((filterMinScore = 0 /\ filterSkill = "")
             => Len(FilteredPositions) = Len(results))
    /\ [][(\/ filterMinScore' # filterMinScore
           \/ filterSkill' # filterSkill
           \/ sortBy' # sortBy) => results' = results]_vars

\* The skill filter "PY" and the order by experience are set: some of the
\* stored results are shown, not all, and not in the stored order.
C24_Witness ==
    /\ filterSkill = "PY"
    /\ sortBy = "yoe"
    /\ Len(results) = 3
    /\ Len(FilteredPositions) = 2
    /\ FilteredPositions[1] > FilteredPositions[2]

---------------------------------------------------------------------------
(* Removing a file from the upload list. *)

(* C25: removeFile(index) with an index of the upload list removes the     *)
(* file at that position and keeps the other files in their order, so the  *)
(* list is shorter by one; with an index outside the list it changes       *)
(* nothing; either way error, results, loading and the requests already    *)
(* sent, with their files, and the responses are unchanged.                *)
C25_RemoveFileRemovesOne ==
    [][\A index \in 0..Len(resumes) :
          RemoveFile(index) =>
             /\ IF index < Len(resumes)
                THEN /\ resumes' = SubSeq(resumes, 1, index)
                                      \o SubSeq(resumes, index + 2, Len(resumes))
                     /\ Len(resumes') = Len(resumes) - 1
                ELSE resumes' = resumes
             /\ UNCHANGED <<error, results, loading, requests, responses>>]_vars

\* The first of two files was removed after the request with both was sent.
C25_Witness ==
    /\ Len(requests) = 1
    /\ Len(requests[1].resumes) = 2
    /\ requests[1].resumes[1] # requests[1].resumes[2]
    /\ resumes = <<requests[1].resumes[2]>>

===========================================================================
